---- MODULE Spec2Model ----
(***************************************************************************)
(* Model of the memory-bank MCP server (api/server.ts and its earlier      *)
(* variant): three handlers, memory.remember, memory.forget and           *)
(* memory.recall, that keep one JSON array per user in a Redis JSON store. *)
(* Every `await redis...` is one atomic step of the store; handler        *)
(* invocations interleave at those steps.                                  *)
(***************************************************************************)
EXTENDS Integers, Sequences, FiniteSets, TLC

(* ------------------------------ bounds --------------------------------- *)
\* number of handler invocations that can be in progress at once
NumProcs == 3
\* total number of invocations started in one behaviour, when they all come
\* from one user
MaxCalls == 3
\* the same, when they come from one user and from guests
MaxCallsGuest == 2
\* the same, when they come from two users
MaxCallsUsers == 2
\* the same, where the store is taken to answer every call in the end
MaxCallsLive == 2
\* the index arguments tried by memory.forget: -MaxNegIndex..MaxIndex
MaxNegIndex == 1
MaxIndex == 2

Procs == 1..NumProcs
Emails == {"u", "v"}
Records == {"a", "b"}
Indexes == (0 - MaxNegIndex)..MaxIndex
\* messages of the errors a store call can fail with (network, server fault)
StoreErrors == {"timeout"}

(* --------------------------- JavaScript values ------------------------- *)
Undefined == [t |-> "undefined"]
Null == [t |-> "null"]
Str(s) == [t |-> "string", s |-> s]
Num(n) == [t |-> "number", n |-> n]
Arr(xs) == [t |-> "array", items |-> xs]
\* the store has no value at the key
NoKey == [t |-> "nokey"]

\* variant: every number counts as true, 0 too
TruthyAnyNumber(v) ==
    CASE v.t = "undefined" -> FALSE
      [] v.t = "null" -> FALSE
      [] v.t = "string" -> v.s # ""
      [] OTHER -> TRUE

\* variant: the empty string counts as true
TruthyNoEmptyCheck(v) ==
    CASE v.t = "undefined" -> FALSE
      [] v.t = "null" -> FALSE
      [] v.t = "number" -> v.n # 0
      [] OTHER -> TRUE

\* JavaScript truthiness, as used by `if (!user)`, `if (exists)`,
\* `if (result)` and `memory ? ... : ...`
Truthy(v) ==
    CASE v.t = "undefined" -> FALSE
      [] v.t = "null" -> FALSE
      [] v.t = "string" -> v.s # ""
      [] v.t = "number" -> v.n # 0
      [] OTHER -> TRUE

\* `${v}` in a template literal
Interpolate(v) ==
    CASE v.t = "string" -> v.s
      [] v.t = "number" -> ToString(v.n)
      [] v.t = "null" -> "null"
      [] OTHER -> "undefined"

RECURSIVE StringifyItems(_)
\* JSON.stringify of an array of strings (records hold no character that
\* needs escaping)
StringifyItems(xs) ==
    IF xs = <<>> THEN ""
    ELSE LET h == Head(xs)
             e == IF h.t = "string" THEN "\"" \o h.s \o "\""
                  ELSE IF h.t = "array" THEN "[" \o StringifyItems(h.items) \o "]"
                  ELSE "null"
         IN IF Tail(xs) = <<>> THEN e ELSE e \o "," \o StringifyItems(Tail(xs))

Stringify(v) ==
    CASE v.t = "array" -> "[" \o StringifyItems(v.items) \o "]"
      [] v.t = "string" -> "\"" \o v.s \o "\""
      [] v.t = "null" -> "null"
      [] OTHER -> "undefined"

\* the array of the first n text records of a sequence of TLA+ strings
TextArr(rs) == Arr([i \in 1..Len(rs) |-> Str(rs[i])])

(* ------------------------- identity and key ---------------------------- *)
\* the RequestInfo a handler is called with: none at all, or one whose
\* headers may or may not carry x-user-email
Request(e) == [t |-> "request", email |-> e]
GuestRequests == {Undefined, Request(Undefined), Request(Str(""))}
\* the requests of one signed-in user
UserRequests == {Request(Str("u"))}
\* the requests of the signed-in users
AllUserRequests == {Request(Str(u)) : u \in Emails}

\* the x-user-email header of the request, undefined without request info
\* or header (the earlier variant reads request.headers.get, null without)
getUser(request) ==
    IF Truthy(request) THEN request.email ELSE Undefined

\* variant: one key for every user
getMemoryKeyShared(userEmail) == "memory:"

\* variant: the key of one fixed user
getMemoryKeyFixed(userEmail) == "memory:" \o "u"

getMemoryKey(userEmail) == "memory:" \o userEmail

StoreKeys == {getMemoryKey(u) : u \in Emails \cup {""}}

(* ------------------------- the store's primitives ---------------------- *)
\* Each primitive maps the document at the key to the document left there
\* and either the value returned or the error thrown.
NoError == ""
Ok(doc, ret) == [doc |-> doc, threw |-> FALSE, ret |-> ret, msg |-> NoError]
Threw(doc, msg) == [doc |-> doc, threw |-> TRUE, ret |-> Undefined, msg |-> msg]

\* redis.exists(key): 1 when the key exists, else 0
RedisExists(doc) == Ok(doc, Num(IF doc = NoKey THEN 0 ELSE 1))

\* variant: a set that leaves a key that exists as it is
JsonSetIfAbsent(doc, value) ==
    IF doc = NoKey THEN Ok(value, Str("OK")) ELSE Ok(doc, Null)

\* variant: a set that keeps the elements already at the key
JsonSetKeepExisting(doc, value) ==
    IF doc # NoKey /\ doc.t = "array" /\ value.t = "array"
    THEN Ok(Arr(doc.items \o value.items), Str("OK"))
    ELSE Ok(value, Str("OK"))

\* redis.json.set(key, "$", value): whole-value set, creates the key
JsonSet(doc, value) == Ok(value, Str("OK"))

\* variant: the value is appended twice
JsonArrAppendTwice(doc, value) ==
    IF doc = NoKey THEN Threw(doc, "ERR no such key")
    ELSE IF doc.t = "array"
         THEN Ok(Arr(Append(Append(doc.items, value), value)),
                 Arr(<<Num(Len(doc.items) + 2)>>))
         ELSE Ok(doc, Arr(<<Null>>))

\* variant: the array is replaced by the value alone
JsonArrAppendReplace(doc, value) ==
    IF doc = NoKey THEN Threw(doc, "ERR no such key")
    ELSE IF doc.t = "array"
         THEN Ok(Arr(<<value>>), Arr(<<Num(1)>>))
         ELSE Ok(doc, Arr(<<Null>>))

\* variant: the value is inserted at the head
JsonArrAppendFront(doc, value) ==
    IF doc = NoKey THEN Threw(doc, "ERR no such key")
    ELSE IF doc.t = "array"
         THEN Ok(Arr(<<value>> \o doc.items), Arr(<<Num(Len(doc.items) + 1)>>))
         ELSE Ok(doc, Arr(<<Null>>))

\* redis.json.arrappend(key, "$", value): JSON.ARRAPPEND appends to the
\* array at the root and returns the new length; it is an error on a key
\* that does not exist and answers null for a root that is not an array
JsonArrAppend(doc, value) ==
    IF doc = NoKey THEN Threw(doc, "ERR no such key")
    ELSE IF doc.t = "array"
         THEN Ok(Arr(Append(doc.items, value)), Arr(<<Num(Len(doc.items) + 1)>>))
         ELSE Ok(doc, Arr(<<Null>>))

\* the sequence xs without its element at 1-based position k
RemoveAt(xs, k) == [j \in 1..(Len(xs) - 1) |-> IF j < k THEN xs[j] ELSE xs[j + 1]]

\* JSON.ARRPOP's position for a 0-based index on an array of length n >= 1:
\* a negative index counts from the end, and an index out of range rounds
\* to the nearest end of the array
PopPosition(index, n) ==
    IF index < 0 THEN (IF n + index < 0 THEN 0 ELSE n + index)
    ELSE IF index > n - 1 THEN n - 1 ELSE index

\* variant: the key is deleted with its last element
JsonArrPopDeleteEmpty(doc, index) ==
    IF doc = NoKey THEN Ok(doc, Null)
    ELSE IF doc.t # "array" \/ doc.items = <<>> THEN Ok(doc, Arr(<<Null>>))
    ELSE LET k == PopPosition(index, Len(doc.items)) + 1
             rest == RemoveAt(doc.items, k)
         IN Ok(IF rest = <<>> THEN NoKey ELSE Arr(rest), Arr(<<doc.items[k]>>))

\* variant: the reply is the head of the array, not the element removed
JsonArrPopReplyHead(doc, index) ==
    IF doc = NoKey THEN Ok(doc, Null)
    ELSE IF doc.t # "array" \/ doc.items = <<>> THEN Ok(doc, Arr(<<Null>>))
    ELSE LET k == PopPosition(index, Len(doc.items)) + 1
         IN Ok(Arr(RemoveAt(doc.items, k)), Arr(<<doc.items[1]>>))

\* variant: the default index of JSON.ARRPOP, the last element, whatever
\* is asked
JsonArrPopLast(doc, index) ==
    IF doc = NoKey THEN Ok(doc, Null)
    ELSE IF doc.t # "array" \/ doc.items = <<>> THEN Ok(doc, Arr(<<Null>>))
    ELSE Ok(Arr(SubSeq(doc.items, 1, Len(doc.items) - 1)),
            Arr(<<doc.items[Len(doc.items)]>>))

\* redis.json.arrpop(key, "$", index): JSON.ARRPOP removes and returns the
\* element at the index; with the path "$" the reply is the array of the
\* values popped at each match of the path, one here, which is null when
\* the array is empty.  On a key that does not exist the reply is null
\* (a store that rejects the command instead is the failing call of
\* ForgetArrPop).
JsonArrPop(doc, index) ==
    IF doc = NoKey THEN Ok(doc, Null)
    ELSE IF doc.t # "array" \/ doc.items = <<>> THEN Ok(doc, Arr(<<Null>>))
    ELSE LET k == PopPosition(index, Len(doc.items)) + 1
         IN Ok(Arr(RemoveAt(doc.items, k)), Arr(<<doc.items[k]>>))

\* variant: a read that creates the key it does not find
JsonGetCreate(doc) ==
    IF doc = NoKey THEN Ok(Arr(<<>>), Arr(<<Arr(<<>>)>>)) ELSE Ok(doc, Arr(<<doc>>))

\* redis.json.get(key, "$"): null for a key that does not exist, else the
\* array of the matches of the path, whose only element is the root
JsonGet(doc) == Ok(doc, IF doc = NoKey THEN Null ELSE Arr(<<doc>>))

(* ------------------------------ responses ------------------------------ *)
\* `kind` names the return statement that produced the response; `text`
\* is the text it carries
Response(kind, text) == [kind |-> kind, text |-> text]
NoResponse == Response("none", "")
\* what the protocol layer gets if an exception leaves the handler
Fault(msg) == Response("fault", msg)

\* new Date().toISOString(): the clock is not modelled
Timestamp == "<now>"

GuestText == "Memory feature is not available for guest users."
RecallGuestText == "{\"error\":\"User not found\"}"

RememberStored(record) ==
    Response("stored", "Stored memory about: " \o Interpolate(record)
                          \o " on " \o Timestamp \o " UTC")
\* variant: the store calls stand outside the try block
RememberUncaught(msg) == Fault(msg)
RememberCatch(msg) == Response("error", "Error storing memory item: " \o msg)

ForgetRemoved(index, result) ==
    Response("removed", "Removed memory item at index " \o Interpolate(index)
                           \o " about: " \o Interpolate(result.items[1]))
ForgetNotFound(index) ==
    Response("notfound", "No memory item found at index " \o Interpolate(index) \o ".")
ForgetCatch(index, msg) ==
    Response("error", "Error removing memory item " \o Interpolate(index) \o ": " \o msg)

\* variant: no default for a null reply
MemoryDataNoDefault(memory) ==
    IF memory.t = "array" THEN memory.items[1] ELSE memory

\* const memoryData = memory ? memory[0] : []
MemoryData(memory) ==
    IF Truthy(memory) THEN memory.items[1] ELSE Arr(<<>>)

RecallContents(memoryData) == Response("contents", Stringify(memoryData))
RecallCatch(msg) == Response("error", "{\"error\":\"" \o msg \o "\"}")

\* variant: the record itself is written
InitialDocumentScalar(record) == record

\* the value of the first write, `[record]`
InitialDocument(record) == Arr(<<record>>)

(* ------------------------------- state --------------------------------- *)
VARIABLES
    store,    \* the Redis database: the JSON document at each key, or NoKey
    pc,       \* where each invocation is: "idle", an await, or "done"
    call,     \* the tool, request and argument of each invocation
    exists,   \* memory.remember's local `exists`
    resp,     \* the response each invocation returned
    issued,   \* history: the store primitives each invocation has called,
              \* each with the message of the error it threw, if any
    lastMut,  \* history: the last write executed at each key, and by whom
    fresh,    \* history: no write has executed at the invocation's key
              \* since its own store call
    seqh,     \* history: the records appended one after another to a key
              \* that started absent, or Void once anything else happened
    nCalls    \* number of invocations started

vars == <<store, pc, call, exists, resp, issued, lastMut, fresh, seqh, nCalls>>

Void == <<"void">>
NoMut == [prim |-> "none", by |-> 0]
NoCall == [tool |-> "none", request |-> Undefined, arg |-> Undefined]

UserOf(p) == getUser(call[p].request)
KeyOf(p) == getMemoryKey(UserOf(p).s)
Active(p) == pc[p] \notin {"idle", "done"}
\* some other invocation for the same key is between its call and return
Overlaps(p, k) ==
    \E q \in Procs \ {p} : Active(q) /\ Truthy(UserOf(q)) /\ KeyOf(q) = k

Init ==
    /\ store = [k \in StoreKeys |-> NoKey]
    /\ pc = [p \in Procs |-> "idle"]
    /\ call = [p \in Procs |-> NoCall]
    /\ exists = [p \in Procs |-> Undefined]
    /\ resp = [p \in Procs |-> NoResponse]
    /\ issued = [p \in Procs |-> <<>>]
    /\ lastMut = [k \in StoreKeys |-> NoMut]
    /\ fresh = [p \in Procs |-> FALSE]
    /\ seqh = [k \in StoreKeys |-> <<>>]
    /\ nCalls = 0

\* a write by p has executed at key k
Wrote(p, k, prim) ==
    /\ lastMut' = [lastMut EXCEPT ![k] = [prim |-> prim, by |-> p]]
    /\ fresh' = [q \in Procs |->
                   IF q = p THEN TRUE
                   ELSE IF Truthy(UserOf(q)) /\ KeyOf(q) = k THEN FALSE
                   ELSE fresh[q]]

\* the handler is entered: the code up to its first await.  An invocation
\* takes the lowest slot that holds no invocation in progress.
Enter(p, budget, tool, request, arg, guestResponse, firstAwait) ==
    /\ pc[p] \in {"idle", "done"}
    /\ \A q \in Procs : q < p => Active(q)
    /\ nCalls < budget
    /\ nCalls' = nCalls + 1
    /\ call' = [call EXCEPT ![p] = [tool |-> tool, request |-> request, arg |-> arg]]
    /\ exists' = [exists EXCEPT ![p] = Undefined]
    /\ issued' = [issued EXCEPT ![p] = <<>>]
    /\ fresh' = [fresh EXCEPT ![p] = FALSE]
    /\ LET user == getUser(request)
       IN IF ~Truthy(user)
          THEN /\ resp' = [resp EXCEPT ![p] = guestResponse]
               /\ pc' = [pc EXCEPT ![p] = "done"]
               /\ seqh' = seqh
          ELSE /\ resp' = [resp EXCEPT ![p] = NoResponse]
               /\ pc' = [pc EXCEPT ![p] = firstAwait]
               /\ LET k == getMemoryKey(user.s)
                  IN seqh' = [seqh EXCEPT ![k] =
                                IF tool = "forget" \/ Overlaps(p, k)
                                THEN Void ELSE @]
    /\ UNCHANGED <<store, lastMut>>

Remember(p, requests, budget) ==
    \E request \in requests, record \in Records :
        Enter(p, budget, "remember", request, Str(record),
              Response("guest", GuestText), "exists")

Forget(p, requests, budget) ==
    \E request \in requests, index \in Indexes :
        Enter(p, budget, "forget", request, Num(index),
              Response("guest", GuestText), "arrpop")

Recall(p, requests, budget) ==
    \E request \in requests :
        Enter(p, budget, "recall", request, Undefined,
              Response("guest", RecallGuestText), "get")

Called(prim, r) == [prim |-> prim, err |-> r.msg]

\* the outcomes of one store call: the primitive's own, or a failure of
\* the call that leaves the document as it was
Outcomes(r, doc) == {r} \cup {Threw(doc, m) : m \in StoreErrors}

\* variant: a failed existence check is taken as "does not exist" and the
\* handler goes on to its write
RememberExistsSwallow(p) ==
    /\ pc[p] = "exists"
    /\ \E r \in Outcomes(RedisExists(store[KeyOf(p)]), store[KeyOf(p)]) :
         /\ issued' = [issued EXCEPT ![p] = Append(@, Called("exists", r))]
         /\ store' = [store EXCEPT ![KeyOf(p)] = r.doc]
         /\ exists' = [exists EXCEPT ![p] = IF r.threw THEN Num(0) ELSE r.ret]
         /\ pc' = [pc EXCEPT ![p] = "write"]
         /\ fresh' = [fresh EXCEPT ![p] = ~r.threw]
         /\ seqh' = [seqh EXCEPT ![KeyOf(p)] = IF r.threw THEN Void ELSE @]
         /\ UNCHANGED resp
    /\ UNCHANGED <<call, lastMut, nCalls>>

\* variant: the handler waits until no other invocation is in progress
\* on its key
RememberExistsWaits(p) ==
    /\ pc[p] = "exists"
    /\ ~Overlaps(p, KeyOf(p))
    /\ \E r \in Outcomes(RedisExists(store[KeyOf(p)]), store[KeyOf(p)]) :
         /\ issued' = [issued EXCEPT ![p] = Append(@, Called("exists", r))]
         /\ store' = [store EXCEPT ![KeyOf(p)] = r.doc]
         /\ IF r.threw
            THEN /\ resp' = [resp EXCEPT ![p] = RememberCatch(r.msg)]
                 /\ pc' = [pc EXCEPT ![p] = "done"]
                 /\ exists' = exists
                 /\ seqh' = [seqh EXCEPT ![KeyOf(p)] = Void]
                 /\ fresh' = fresh
            ELSE /\ exists' = [exists EXCEPT ![p] = r.ret]
                 /\ pc' = [pc EXCEPT ![p] = "write"]
                 /\ fresh' = [fresh EXCEPT ![p] = TRUE]
                 /\ UNCHANGED <<resp, seqh>>
    /\ UNCHANGED <<call, lastMut, nCalls>>

\* const exists = await redis.exists(key)
RememberExists(p) ==
    /\ pc[p] = "exists"
    /\ \E r \in Outcomes(RedisExists(store[KeyOf(p)]), store[KeyOf(p)]) :
         /\ issued' = [issued EXCEPT ![p] = Append(@, Called("exists", r))]
         /\ store' = [store EXCEPT ![KeyOf(p)] = r.doc]
         /\ IF r.threw
            THEN /\ resp' = [resp EXCEPT ![p] = RememberCatch(r.msg)]
                 /\ pc' = [pc EXCEPT ![p] = "done"]
                 /\ exists' = exists
                 /\ seqh' = [seqh EXCEPT ![KeyOf(p)] = Void]
                 /\ fresh' = fresh
            ELSE /\ exists' = [exists EXCEPT ![p] = r.ret]
                 /\ pc' = [pc EXCEPT ![p] = "write"]
                 /\ fresh' = [fresh EXCEPT ![p] = TRUE]
                 /\ UNCHANGED <<resp, seqh>>
    /\ UNCHANGED <<call, lastMut, nCalls>>

\* if (exists) await redis.json.arrappend(key, "$", record)
\* else await redis.json.set(key, "$", [record]); then the response
RememberWrite(p) ==
    /\ pc[p] = "write"
    /\ LET k == KeyOf(p)
           record == call[p].arg
           prim == IF Truthy(exists[p]) THEN "arrappend" ELSE "set"
           own == IF Truthy(exists[p])
                  THEN JsonArrAppend(store[k], record)
                  ELSE JsonSet(store[k], InitialDocument(record))
       IN \E r \in Outcomes(own, store[k]) :
            /\ issued' = [issued EXCEPT ![p] = Append(@, Called(prim, r))]
            /\ store' = [store EXCEPT ![k] = r.doc]
            /\ pc' = [pc EXCEPT ![p] = "done"]
            /\ IF r.threw
               THEN /\ resp' = [resp EXCEPT ![p] = RememberCatch(r.msg)]
                    /\ seqh' = [seqh EXCEPT ![k] = Void]
                    /\ UNCHANGED <<lastMut, fresh>>
               ELSE /\ resp' = [resp EXCEPT ![p] = RememberStored(record)]
                    /\ seqh' = [seqh EXCEPT ![k] =
                                  IF @ = Void THEN Void ELSE Append(@, record.s)]
                    /\ Wrote(p, k, prim)
    /\ UNCHANGED <<call, exists, nCalls>>

\* const result = await redis.json.arrpop(key, "$", index); then the
\* response
ForgetArrPop(p) ==
    /\ pc[p] = "arrpop"
    /\ LET k == KeyOf(p)
           index == call[p].arg
       IN \E r \in Outcomes(JsonArrPop(store[k], index.n), store[k]) :
            /\ issued' = [issued EXCEPT ![p] = Append(@, Called("arrpop", r))]
            /\ store' = [store EXCEPT ![k] = r.doc]
            /\ pc' = [pc EXCEPT ![p] = "done"]
            /\ IF r.threw
               THEN /\ resp' = [resp EXCEPT ![p] = ForgetCatch(index, r.msg)]
                    /\ UNCHANGED <<lastMut, fresh>>
               ELSE /\ resp' = [resp EXCEPT ![p] =
                                  IF Truthy(r.ret) THEN ForgetRemoved(index, r.ret)
                                  ELSE ForgetNotFound(index)]
                    /\ IF r.doc # store[k]
                       THEN Wrote(p, k, "arrpop")
                       ELSE /\ lastMut' = lastMut
                            /\ fresh' = [fresh EXCEPT ![p] = TRUE]
    /\ UNCHANGED <<call, exists, seqh, nCalls>>

\* const memory = await redis.json.get(key, "$"); then the response
RecallGet(p) ==
    /\ pc[p] = "get"
    /\ LET k == KeyOf(p)
       IN \E r \in Outcomes(JsonGet(store[k]), store[k]) :
            /\ issued' = [issued EXCEPT ![p] = Append(@, Called("get", r))]
            /\ store' = [store EXCEPT ![k] = r.doc]
            /\ pc' = [pc EXCEPT ![p] = "done"]
            /\ IF r.threw
               THEN /\ resp' = [resp EXCEPT ![p] = RecallCatch(r.msg)]
                    /\ fresh' = fresh
               ELSE /\ resp' = [resp EXCEPT ![p] = RecallContents(MemoryData(r.ret))]
                    /\ fresh' = [fresh EXCEPT ![p] = TRUE]
    /\ UNCHANGED <<call, exists, lastMut, seqh, nCalls>>

\* the steps every invocation takes at its awaits
Await ==
    \/ \E p \in Procs : RememberExists(p)
    \/ \E p \in Procs : RememberWrite(p)
    \/ \E p \in Procs : ForgetArrPop(p)
    \/ \E p \in Procs : RecallGet(p)

\* one signed-in user calls the three handlers
Next ==
    \/ \E p \in Procs : Remember(p, UserRequests, MaxCalls)
    \/ \E p \in Procs : Forget(p, UserRequests, MaxCalls)
    \/ \E p \in Procs : Recall(p, UserRequests, MaxCalls)
    \/ Await

Spec == Init /\ [][Next]_vars

\* guests and one signed-in user call the three handlers
NextGuest ==
    \/ \E p \in Procs : Remember(p, GuestRequests \cup UserRequests, MaxCallsGuest)
    \/ \E p \in Procs : Forget(p, GuestRequests \cup UserRequests, MaxCallsGuest)
    \/ \E p \in Procs : Recall(p, GuestRequests \cup UserRequests, MaxCallsGuest)
    \/ Await

SpecGuest == Init /\ [][NextGuest]_vars

\* two signed-in users call the three handlers
NextUsers ==
    \/ \E p \in Procs : Remember(p, AllUserRequests, MaxCallsUsers)
    \/ \E p \in Procs : Forget(p, AllUserRequests, MaxCallsUsers)
    \/ \E p \in Procs : Recall(p, AllUserRequests, MaxCallsUsers)
    \/ Await

SpecUsers == Init /\ [][NextUsers]_vars

\* one signed-in user calls the three handlers, and the store answers
\* every call in the end, with a result or with an error
NextLive ==
    \/ \E p \in Procs : Remember(p, UserRequests, MaxCallsLive)
    \/ \E p \in Procs : Forget(p, UserRequests, MaxCallsLive)
    \/ \E p \in Procs : Recall(p, UserRequests, MaxCallsLive)
    \/ Await

StoreAnswers ==
    \A p \in Procs :
        /\ WF_vars(RememberExists(p))
        /\ WF_vars(RememberWrite(p))
        /\ WF_vars(ForgetArrPop(p))
        /\ WF_vars(RecallGet(p))

SpecLive == Init /\ [][NextLive]_vars /\ StoreAnswers

TypeOK ==
    /\ \A p \in Procs : pc[p] \in {"idle", "exists", "write", "arrpop", "get", "done"}
    /\ nCalls \in 0..(MaxCalls + MaxCallsGuest)

(* ------------------------------ properties ----------------------------- *)
Returned(p, tool) == pc[p] = "done" /\ call[p].tool = tool
\* the list a reader of the key should see: empty for a key that is absent
ListAt(k) == IF store[k] = NoKey THEN Arr(<<>>) ELSE store[k]
KeyU == "memory:u"

\* C1: records appended one after another to a key that started absent,
\* each Append returning before the next is called and nothing else
\* running on the key, are what a Recall called next returns, in order.
C1_AppendThenRecall ==
    [][\A p \in Procs :
          ( /\ pc[p] = "get" /\ pc'[p] = "done"
            /\ resp'[p].kind # "error"
            /\ seqh[KeyOf(p)] # Void
            /\ Len(seqh[KeyOf(p)]) >= 1 )
          => resp'[p] = Response("contents", Stringify(TextArr(seqh[KeyOf(p)])))]_vars

C1_Witness ==
    \E p \in Procs :
        /\ Returned(p, "recall")
        /\ seqh[KeyU] = <<"a", "b">>
        /\ resp[p] = Response("contents", "[\"a\",\"b\"]")

\* p and q both ran memory.remember on key k, both saw the key absent and
\* both returned success, q's write being the last write at the key
RacedFirstAppends(p, q, k) ==
    /\ p # q
    /\ Returned(p, "remember") /\ Returned(q, "remember")
    /\ KeyOf(p) = k /\ KeyOf(q) = k
    /\ exists[p] = Num(0) /\ exists[q] = Num(0)
    /\ resp[p].kind = "stored" /\ resp[q].kind = "stored"
    /\ issued[p][2].prim = "set" /\ issued[q][2].prim = "set"
    /\ lastMut[k] = [prim |-> "set", by |-> q]

\* C2: when two Appends on an absent key both see "does not exist", both
\* run setDocument and both return success, a Recall that reads the key
\* next returns the one-element list of the record whose setDocument ran
\* second; the other record is lost.
C2_LostFirstAppend ==
    \A p \in Procs, q \in Procs, r \in Procs :
        ( /\ RacedFirstAppends(p, q, KeyU)
          /\ Returned(r, "recall") /\ KeyOf(r) = KeyU
          /\ resp[r].kind = "contents" /\ fresh[r] )
        => resp[r].text = Stringify(Arr(<<call[q].arg>>))

C2_Witness ==
    \E p \in Procs, q \in Procs, r \in Procs :
        /\ RacedFirstAppends(p, q, KeyU)
        /\ call[p].arg = Str("a") /\ call[q].arg = Str("b")
        /\ Returned(r, "recall") /\ fresh[r]
        /\ resp[r] = Response("contents", "[\"b\"]")

\* C3: RemoveAt(i) on a list of length n with 0 <= i < n returns success
\* with the text of the element at i and leaves the n-1 other elements,
\* those after i moved down by one; a Recall that reads the key next
\* returns that list.
C3_RemoveAtInRange ==
    /\ [][\A p \in Procs :
            ( /\ pc[p] = "arrpop" /\ pc'[p] = "done"
              /\ resp'[p].kind # "error"
              /\ store[KeyOf(p)] # NoKey
              /\ call[p].arg.n >= 0
              /\ call[p].arg.n < Len(store[KeyOf(p)].items) )
            => LET k == KeyOf(p)
                   i == call[p].arg.n
                   old == store[k].items
                   new == store'[k].items
               IN /\ resp'[p] = Response("removed",
                         "Removed memory item at index " \o ToString(i)
                            \o " about: " \o old[i + 1].s)
                  /\ Len(new) = Len(old) - 1
                  /\ \A j \in 1..Len(new) :
                        new[j] = IF j <= i THEN old[j] ELSE old[j + 1]]_vars
    /\ [](\A p \in Procs, r \in Procs :
            ( /\ Returned(p, "forget") /\ resp[p].kind = "removed"
              /\ lastMut[KeyOf(p)] = [prim |-> "arrpop", by |-> p]
              /\ Returned(r, "recall") /\ KeyOf(r) = KeyOf(p)
              /\ resp[r].kind = "contents" /\ fresh[r] )
            => resp[r].text = Stringify(store[KeyOf(p)]))

C3_Witness ==
    \E p \in Procs :
        /\ Returned(p, "forget") /\ call[p].arg = Num(0)
        /\ resp[p] = Response("removed", "Removed memory item at index 0 about: a")
        /\ lastMut[KeyU] = [prim |-> "arrpop", by |-> p]
        /\ store[KeyU] = Arr(<<Str("b")>>)

\* C4: RemoveAt on an absent key, on an empty list, or with an index
\* outside 0..n-1 returns "not found" (when the store call does not fail)
\* and leaves the list as it was.
C4_RemoveAtOutOfRange ==
    [][\A p \in Procs :
          ( /\ pc[p] = "arrpop" /\ pc'[p] = "done"
            /\ issued'[p][1].err = NoError
            /\ \/ store[KeyOf(p)] = NoKey
               \/ call[p].arg.n < 0
               \/ call[p].arg.n >= Len(store[KeyOf(p)].items) )
          => /\ resp'[p].kind = "notfound"
             /\ store'[KeyOf(p)] = store[KeyOf(p)]]_vars

\* the response an error with message m becomes in each handler
ErrorResponse(tool, arg, m) ==
    CASE tool = "remember" -> Response("error", "Error storing memory item: " \o m)
      [] tool = "forget" -> Response("error", "Error removing memory item "
                                        \o ToString(arg.n) \o ": " \o m)
      [] tool = "recall" -> Response("error", "{\"error\":\"" \o m \o "\"}")

DefinedKinds(tool) ==
    CASE tool = "remember" -> {"stored", "error"}
      [] tool = "forget" -> {"removed", "notfound", "error"}
      [] tool = "recall" -> {"contents", "error"}

\* C5: for a signed-in caller, a store call that fails makes the handler
\* return its store-error response with the error's message; every
\* invocation that has returned returned one of its defined responses and
\* none ended in an uncaught fault.
C5_StoreErrorsCaught ==
    \A p \in Procs :
        pc[p] = "done" =>
            /\ resp[p].kind \in DefinedKinds(call[p].tool)
            /\ \A i \in 1..Len(issued[p]) :
                  issued[p][i].err # NoError =>
                      /\ i = Len(issued[p])
                      /\ resp[p] = ErrorResponse(call[p].tool, call[p].arg, issued[p][i].err)
            /\ resp[p].kind = "error" =>
                  /\ issued[p] # <<>>
                  /\ issued[p][Len(issued[p])].err # NoError

C5_Witness ==
    \E p \in Procs, q \in Procs, r \in Procs :
        /\ Returned(p, "remember") /\ issued[p] = <<[prim |-> "exists", err |-> NoError],
                                                   [prim |-> "set", err |-> "timeout"]>>
        /\ resp[p] = Response("error", "Error storing memory item: timeout")
        /\ Returned(q, "forget") /\ call[q].arg = Num(1)
        /\ resp[q] = Response("error", "Error removing memory item 1: timeout")
        /\ Returned(r, "recall")
        /\ resp[r] = Response("error", "{\"error\":\"timeout\"}")

\* the request carries no identity: no request info, no x-user-email
\* header, or an empty one
GuestRequest(request) ==
    \/ request = Undefined
    \/ request.email = Undefined
    \/ request.email = Str("")

\* C6: an invocation without identity, or with an empty one, returns the
\* handler's fixed guest response without calling the store, whatever its
\* record or index; it leaves every key as it was.
C6_GuestNoStoreAccess ==
    /\ [](\A p \in Procs :
            (call[p].tool # "none" /\ GuestRequest(call[p].request)) =>
                /\ pc[p] = "done"
                /\ issued[p] = <<>>
                /\ resp[p] = IF call[p].tool = "recall"
                             THEN Response("guest", "{\"error\":\"User not found\"}")
                             ELSE Response("guest",
                                     "Memory feature is not available for guest users."))
    /\ [][\A p \in Procs :
            ( /\ nCalls' # nCalls
              /\ ~Active(p) /\ pc'[p] = "done"
              /\ GuestRequest(call'[p].request) )
            => store' = store]_vars

C6_Witness ==
    \E p \in Procs :
        /\ Returned(p, "forget")
        /\ call[p].request = Request(Str(""))
        /\ call[p].arg = Num(0)
        /\ resp[p].kind = "guest"
        /\ store[KeyU] = Arr(<<Str("a")>>)
        /\ nCalls = 2

\* C7: Recall on a key that is absent, and on a key that holds an empty
\* array, returns the empty sequence and not an error.
C7_RecallEmpty ==
    \A p \in Procs :
        ( /\ Returned(p, "recall")
          /\ issued[p] = <<[prim |-> "get", err |-> NoError]>>
          /\ fresh[p]
          /\ store[KeyOf(p)] \in {NoKey, Arr(<<>>)} )
        => resp[p] = Response("contents", "[]")

C7_Witness ==
    \E p \in Procs :
        /\ Returned(p, "recall") /\ fresh[p]
        /\ store[KeyU] = Arr(<<>>)
        /\ lastMut[KeyU].prim = "arrpop"
        /\ resp[p] = Response("contents", "[]")

\* C8: a key that exists never stops existing; removing the last element
\* leaves an empty array at the key.
C8_NeverAbsentAgain ==
    [][\A k \in StoreKeys : store[k] # NoKey => store'[k] # NoKey]_vars

C8_Witness ==
    /\ store[KeyU] = Arr(<<>>)
    /\ lastMut[KeyU].prim = "arrpop"
    /\ \E p \in Procs : Returned(p, "forget") /\ resp[p].kind = "removed"

\* C9: the value at every key that exists is an array whose elements are
\* all text.
C9_AlwaysTextArray ==
    \A k \in StoreKeys :
        store[k] # NoKey =>
            /\ store[k].t = "array"
            /\ \A i \in 1..Len(store[k].items) : store[k].items[i].t = "string"

C9_Witness ==
    \E p \in Procs, q \in Procs :
        /\ RacedFirstAppends(p, q, KeyU)
        /\ store[KeyU] = Arr(<<Str("b")>>)
        /\ call[p].arg = Str("a")

\* C10: Recall's store call leaves every key as it was; two Recalls with
\* no write at the key since either read return the same result, and
\* that result is the list now at the key.
C10_RecallReadsOnly ==
    /\ [][\A p \in Procs : (pc[p] = "get" /\ pc'[p] # "get") => store' = store]_vars
    /\ [](\A p \in Procs :
            ( /\ Returned(p, "recall") /\ fresh[p]
              /\ issued[p] = <<[prim |-> "get", err |-> NoError]>> )
            => /\ resp[p] = Response("contents", Stringify(ListAt(KeyOf(p))))
               /\ \A q \in Procs :
                     ( /\ Returned(q, "recall") /\ fresh[q]
                       /\ KeyOf(q) = KeyOf(p)
                       /\ issued[q] = <<[prim |-> "get", err |-> NoError]>> )
                     => resp[q] = resp[p])

C10_Witness ==
    \E p \in Procs, q \in Procs :
        /\ p # q
        /\ Returned(p, "recall") /\ fresh[p]
        /\ Returned(q, "recall") /\ fresh[q]
        /\ resp[p] = Response("contents", "[\"a\"]")
        /\ resp[q] = resp[p]
        /\ store[KeyU] = Arr(<<Str("a")>>)

\* the key of identity u, spelled as the specification spells it
KeyFor(u) == "memory:" \o u

\* C11: the list of a user changes only at a step of an invocation made
\* with that user's identity, and a Recall returns the list at its own
\* user's key; an invocation of u neither reads nor changes the list of v.
C11_UsersIsolated ==
    /\ [][\A k \in StoreKeys :
            store'[k] # store[k] =>
                \E p \in Procs :
                    /\ pc'[p] # pc[p]
                    /\ k = KeyFor(call[p].request.email.s)]_vars
    /\ [](\A p \in Procs :
            ( /\ Returned(p, "recall") /\ fresh[p]
              /\ resp[p].kind = "contents" )
            => LET k == KeyFor(call[p].request.email.s)
               IN /\ k \in DOMAIN store
                  /\ resp[p].text = Stringify(ListAt(k)))

C11_Witness ==
    \E p \in Procs, q \in Procs :
        /\ Returned(p, "remember") /\ call[p].request = Request(Str("u"))
        /\ Returned(q, "recall") /\ call[q].request = Request(Str("v"))
        /\ resp[p].kind = "stored"
        /\ lastMut[KeyFor("u")] = [prim |-> "set", by |-> p]
        /\ resp[q] = Response("contents", "[]") /\ fresh[q]
        /\ store[KeyFor("u")] = Arr(<<Str("a")>>)
        /\ store[KeyFor("v")] = NoKey

\* C12: the key of an identity is always "memory:" followed by the
\* identity, and the keys of distinct identities differ.
C12_KeyInjective ==
    /\ \A p \in Procs :
          (call[p].tool # "none" /\ pc[p] # "idle") =>
              KeyOf(p) = KeyFor(call[p].request.email.s)
    /\ \A p \in Procs, q \in Procs :
          ( /\ Active(p) /\ Active(q)
            /\ call[p].request # call[q].request )
          => KeyOf(p) # KeyOf(q)
    /\ \A u \in Emails \cup {""}, v \in Emails \cup {""} :
          u # v => getMemoryKey(u) # getMemoryKey(v)

C12_Witness ==
    \E p \in Procs, q \in Procs :
        /\ Active(p) /\ Active(q)
        /\ call[p].request = Request(Str("u"))
        /\ call[q].request = Request(Str("v"))
        /\ KeyOf(p) = "memory:u" /\ KeyOf(q) = "memory:v"

\* the sequence xs without its element at position j
Without(xs, j) == SubSeq(xs, 1, j - 1) \o SubSeq(xs, j + 1, Len(xs))
RemovedText(index, text) ==
    "Removed memory item at index " \o ToString(index) \o " about: " \o text

\* C13: on a key that exists, where every Append's existence check has
\* answered "exists", each step of an Append or RemoveAt either appends the
\* Append's record at the tail, or removes exactly the one occurrence that
\* the RemoveAt returns, or leaves the list as it is; the other elements
\* keep their order.  So the list always holds the initial elements plus
\* the appended records minus the elements returned, and no occurrence is
\* returned twice.
C13_NoLossOncePresent ==
    [][\A p \in Procs :
          ( /\ pc'[p] # pc[p] /\ Active(p)
            /\ store[KeyOf(p)] # NoKey
            /\ exists[p] # Num(0) )
          => LET old == store[KeyOf(p)].items
                 new == store'[KeyOf(p)].items
             IN IF pc[p] = "write" /\ resp'[p].kind = "stored"
                THEN new = Append(old, call[p].arg)
                ELSE IF pc[p] = "arrpop" /\ resp'[p].kind = "removed"
                THEN \/ \E j \in 1..Len(old) :
                          /\ resp'[p].text = RemovedText(call[p].arg.n, old[j].s)
                          /\ new = Without(old, j)
                     \/ /\ resp'[p].text = RemovedText(call[p].arg.n, "null")
                        /\ old = <<>> /\ new = old
                ELSE new = old]_vars

C13_Witness ==
    \E p \in Procs, q \in Procs :
        /\ Returned(p, "remember") /\ exists[p] = Num(1)
        /\ call[p].arg = Str("b") /\ resp[p].kind = "stored"
        /\ Returned(q, "forget")
        /\ resp[q] = Response("removed", "Removed memory item at index 0 about: a")
        /\ lastMut[KeyU] = [prim |-> "arrappend", by |-> p]
        /\ store[KeyU] = Arr(<<Str("b")>>)

\* C14: an Append with no write at its key between its existence check and
\* its own write adds exactly its record at the tail and leaves the other
\* elements where they were, whether the key was absent, held an empty
\* array or held n >= 1 elements.
C14_AppendAddsOneAtTail ==
    [][\A p \in Procs :
          ( /\ pc[p] = "write" /\ pc'[p] = "done"
            /\ fresh[p]
            /\ resp'[p].kind = "stored" )
          => LET old == IF store[KeyOf(p)] = NoKey THEN <<>>
                        ELSE store[KeyOf(p)].items
                 new == store'[KeyOf(p)]
             IN /\ new # NoKey
                /\ new.t = "array"
                /\ Len(new.items) = Len(old) + 1
                /\ new.items[Len(old) + 1] = call[p].arg
                /\ \A j \in 1..Len(old) : new.items[j] = old[j]]_vars

C14_Witness ==
    \E p \in Procs :
        /\ Returned(p, "remember") /\ exists[p] = Num(1)
        /\ resp[p].kind = "stored" /\ call[p].arg = Str("b")
        /\ lastMut[KeyU] = [prim |-> "arrappend", by |-> p]
        /\ seqh[KeyU] = <<"a", "b">>
        /\ store[KeyU] = Arr(<<Str("a"), Str("b")>>)

\* C15: whenever a RemoveAt removes an element, it is the element at
\* position index of the list as it is when the store runs the removal.
C15_RemovesAtIndexNow ==
    [][\A p \in Procs :
          ( /\ pc[p] = "arrpop" /\ pc'[p] = "done"
            /\ store'[KeyOf(p)] # store[KeyOf(p)] )
          => LET old == store[KeyOf(p)].items
                 i == call[p].arg.n
             IN /\ i >= 0 /\ i < Len(old)
                /\ store'[KeyOf(p)].items = Without(old, i + 1)
                /\ resp'[p].text = RemovedText(i, old[i + 1].s)]_vars

\* the names of the store primitives invocation p has called, in order
Prims(p) == [i \in 1..Len(issued[p]) |-> issued[p][i].prim]

\* C16: an Append calls exists once and then at most one write, which is
\* arrappend when exists answered 1 and set, of the one-element array of
\* its record, when it answered 0; it writes nothing when exists failed.
\* A RemoveAt calls arrpop once and a Recall calls get once.  Nothing is
\* called twice.
C16_CallProtocol ==
    \A p \in Procs :
        /\ call[p].tool = "remember" =>
              /\ Prims(p) \in {<<>>, <<"exists">>, <<"exists", "arrappend">>,
                               <<"exists", "set">>}
              /\ pc[p] = "exists" <=> Prims(p) = <<>>
              /\ pc[p] = "write" =>
                    Prims(p) = <<"exists">> /\ issued[p][1].err = NoError
              /\ (pc[p] = "done" /\ Len(issued[p]) = 1) => issued[p][1].err # NoError
              /\ Len(issued[p]) = 2 =>
                    /\ issued[p][1].err = NoError
                    /\ Prims(p)[2] = "arrappend" <=> exists[p] = Num(1)
                    /\ Prims(p)[2] = "set" <=> exists[p] = Num(0)
              /\ ( /\ Prims(p) = <<"exists", "set">> /\ resp[p].kind = "stored"
                   /\ lastMut[KeyOf(p)] = [prim |-> "set", by |-> p] )
                 => store[KeyOf(p)] = Arr(<<call[p].arg>>)
        /\ call[p].tool = "forget" =>
              Prims(p) = IF pc[p] = "done" THEN <<"arrpop">> ELSE <<>>
        /\ call[p].tool = "recall" =>
              Prims(p) = IF pc[p] = "done" THEN <<"get">> ELSE <<>>

C16_Witness ==
    \E p \in Procs, q \in Procs, r \in Procs :
        /\ Returned(p, "remember") /\ exists[p] = Num(0)
        /\ Prims(p) = <<"exists", "set">>
        /\ Returned(q, "remember") /\ exists[q] = Num(1)
        /\ Prims(q) = <<"exists", "arrappend">>
        /\ Returned(r, "forget") /\ Prims(r) = <<"arrpop">>
        /\ resp[p].kind = "stored" /\ resp[q].kind = "stored"

\* C17: every invocation that has been called returns in the end, as long
\* as the store answers each of its calls.
C17_EveryCallReturns ==
    \A p \in Procs : Active(p) ~> pc[p] = "done"

C17_Witness ==
    \E p \in Procs, q \in Procs :
        /\ Returned(p, "remember") /\ Len(issued[p]) = 2
        /\ resp[p].kind = "stored"
        /\ Returned(q, "forget") /\ Len(issued[q]) = 1
        /\ resp[q].kind = "error"
        /\ nCalls = MaxCallsLive

\* C18: the write of an Append whose existence check answered "does not
\* exist" replaces the whole document: right after it the list is exactly
\* its record, whatever was written to the key since the check, so records
\* stored by other calls that returned success are discarded.
C18_SetReplacesDocument ==
    [][\A p \in Procs :
          ( /\ pc[p] = "write" /\ pc'[p] = "done"
            /\ exists[p] = Num(0)
            /\ resp'[p].kind = "stored" )
          => store'[KeyOf(p)] = Arr(<<call[p].arg>>)]_vars

C18_Witness ==
    \E p \in Procs, q \in Procs, r \in Procs :
        /\ Returned(p, "remember") /\ exists[p] = Num(0)
        /\ Returned(q, "remember") /\ exists[q] = Num(0)
        /\ Returned(r, "remember") /\ exists[r] = Num(1)
        /\ p # q
        /\ resp[p].kind = "stored" /\ resp[q].kind = "stored"
        /\ resp[r].kind = "stored"
        /\ lastMut[KeyU] = [prim |-> "set", by |-> p]
        /\ call[p].arg = Str("b")
        /\ store[KeyU] = Arr(<<Str("b")>>)

\* the number of elements of the list equal to the record t
Occurrences(doc, t) == Cardinality({i \in DOMAIN doc.items : doc.items[i] = t})
\* the step is the write of an Append of record t on key k, and it executed
AppendWriteOf(k, t) ==
    \E p \in Procs :
        /\ pc[p] = "write" /\ pc'[p] = "done"
        /\ KeyOf(p) = k /\ call[p].arg = t
        /\ resp'[p].kind = "stored"

\* C19: every element of a user's list is the record of an Append on that
\* key whose write has executed, and no Append accounts for more than one
\* element: every list starts empty, every element is a record, and a step
\* raises the number of elements equal to a record by at most one, and only
\* when the step is the executed write of an Append of that record on that
\* key.
C19_ElementsAreAppendedRecords ==
    /\ \A k \in StoreKeys : ListAt(k) = Arr(<<>>)
    /\ [](\A k \in StoreKeys :
             /\ ListAt(k).t = "array"
             /\ \A i \in DOMAIN ListAt(k).items :
                    ListAt(k).items[i] \in {Str(t) : t \in Records})
    /\ [][\A k \in StoreKeys : \A t \in {Str(x) : x \in Records} :
             Occurrences(ListAt(k)', t) <=
                 Occurrences(ListAt(k), t)
                   + (IF AppendWriteOf(k, t) THEN 1 ELSE 0)]_vars

C19_Witness ==
    \E p \in Procs, q \in Procs :
        /\ p # q
        /\ Returned(p, "remember") /\ resp[p].kind = "stored"
        /\ Returned(q, "remember") /\ resp[q].kind = "stored"
        /\ call[p].arg = Str("a") /\ call[q].arg = Str("a")
        /\ lastMut[KeyU] = [prim |-> "arrappend", by |-> q]
        /\ store[KeyU] = Arr(<<Str("a"), Str("a")>>)

\* the last store call the invocation has issued
LastIssued(p) == issued[p][Len(issued[p])]

\* C20: an invocation that returns its store-error response has left the
\* list unchanged: the call that failed is its last one and changed nothing,
\* the only call before it is a successful exists, which changes nothing
\* either; an Append whose exists failed has issued no write.
C20_ErrorLeavesListUnchanged ==
    /\ [](\A p \in Procs :
             /\ (pc[p] = "done" /\ resp[p].kind = "error")
                => /\ Len(issued[p]) >= 1
                   /\ LastIssued(p).err # NoError
                   /\ \A i \in 1..(Len(issued[p]) - 1) :
                          /\ issued[p][i].prim = "exists"
                          /\ issued[p][i].err = NoError
             /\ (Len(issued[p]) >= 1 /\ issued[p][1].err # NoError)
                => Len(issued[p]) = 1)
    /\ [][\A p \in Procs :
             ( /\ Len(issued'[p]) = Len(issued[p]) + 1
               /\ \/ issued'[p][Len(issued'[p])].err # NoError
                  \/ issued'[p][Len(issued'[p])].prim = "exists" )
             => store' = store]_vars

C20_Witness ==
    \E p \in Procs, q \in Procs, r \in Procs :
        /\ Returned(q, "remember") /\ resp[q].kind = "stored"
        /\ lastMut[KeyU] = [prim |-> "set", by |-> q]
        /\ Returned(p, "remember") /\ resp[p].kind = "error"
        /\ exists[p] = Num(1)
        /\ Prims(p) = <<"exists", "arrappend">>
        /\ Returned(r, "forget") /\ resp[r].kind = "error"
        /\ call[r].arg = Num(0)
        /\ store[KeyU] = Arr(<<call[q].arg>>)
====
